---- MODULE Spec2Model ----
(***************************************************************************)
(* A model of the cosette helper routines:                                 *)
(*   reading_utils.py : read_class_file_headers, read_sfx_class_cls_file   *)
(*   varie.py         : exclude_nuisance, delete_burn_in,                  *)
(*                      delete_before_last_hash_line                       *)
(* Text is a sequence of one-character strings; a text file is its whole   *)
(* content, newlines included.  Arrays of the spectra archive are opaque   *)
(* values.                                                                 *)
(***************************************************************************)
EXTENDS Integers, Sequences, FiniteSets, TLC

VARIABLES
    disk,          \* the text files: path -> [exists, data]
    all_cl,        \* the flat mapping stored in the spectra archive
    params_lists,  \* the content of params_lists.json
    call,          \* the last call made: its name and arguments (and, for
                   \* read_sfx_class_cls_file, the nbins of the call before)
    ret,           \* what the last call returned or raised
    pre,           \* the text files as they were when the last call began
    first          \* the first read_sfx_class_cls_file call and its outcome

vars == <<disk, all_cl, params_lists, call, ret, pre, first>>

-----------------------------------------------------------------------------
(* Bounds of the model *)

MaxFileLen == 6
MaxBins == 3
MaxListLen == 1
MaxChainLines == 3

-----------------------------------------------------------------------------
(* Generic helpers *)

Max(a, b) == IF a > b THEN a ELSE b

Min(a, b) == IF a < b THEN a ELSE b

RECURSIVE Flatten(_)
Flatten(ss) == IF ss = <<>> THEN <<>> ELSE Head(ss) \o Flatten(Tail(ss))

SeqsUpTo(S, n) == UNION {[1..k -> S] : k \in 0..n}

NoCall == [op |-> "none"]

NoRet == [kind |-> "none"]

NoFile == [exists |-> FALSE]

File(data) == [exists |-> TRUE, data |-> data]

-----------------------------------------------------------------------------
(* Python text primitives *)

IsSpace(c) == c \in {" ", "\n", "\t"}

IsDigit(c) == c \in {"0", "1", "2", "3", "4", "5", "6", "7", "8", "9"}

\* str.lstrip()
RECURSIVE lstrip(_)
lstrip(s) ==
    IF s # <<>> /\ IsSpace(Head(s)) THEN lstrip(Tail(s)) ELSE s

\* str.rstrip()
RECURSIVE rstrip(_)
rstrip(s) ==
    IF s # <<>> /\ IsSpace(s[Len(s)]) THEN rstrip(SubSeq(s, 1, Len(s) - 1)) ELSE s

\* str.strip()
strip(s) == rstrip(lstrip(s))

\* str.startswith("#")
startswith_hash(s) == s # <<>> /\ Head(s) = "#"

\* the index of the first newline of s at or after i, 0 when there is none
RECURSIVE FindNewline(_, _)
FindNewline(s, i) ==
    IF i > Len(s) THEN 0
    ELSE IF s[i] = "\n" THEN i
    ELSE FindNewline(s, i + 1)

\* f.readlines(), and iteration over a file: the lines, each with its newline
RECURSIVE readlines(_)
readlines(data) ==
    IF data = <<>> THEN <<>>
    ELSE LET i == FindNewline(data, 1)
         IN  IF i = 0 THEN <<data>>
             ELSE <<SubSeq(data, 1, i)>> \o readlines(SubSeq(data, i + 1, Len(data)))

\* f.writelines(lines) on a file opened with "w"
writelines(lines) == Flatten(lines)

-----------------------------------------------------------------------------
(* reading_utils.read_class_file_headers *)

\* the loop with "continue" for "break": other lines are skipped
RECURSIVE HeaderLoopSkip(_)
HeaderLoopSkip(lines) ==
    IF lines = <<>> THEN <<>>
    ELSE LET line == strip(Head(lines))
         IN  (IF startswith_hash(line) THEN <<strip(Tail(line))>> ELSE <<>>)
                 \o HeaderLoopSkip(Tail(lines))

\* the loop over the file: the stripped '#' lines up to the first other line
RECURSIVE HeaderLoop(_)
HeaderLoop(lines) ==
    IF lines = <<>> THEN <<>>
    ELSE LET line == strip(Head(lines))
         IN  IF startswith_hash(line)
             THEN <<strip(Tail(line))>> \o HeaderLoop(Tail(lines))
             ELSE <<>>

\* where a match of \d+: that starts at i ends, 0 when none starts there
RECURSIVE MatchDigitsColon(_, _, _)
MatchDigitsColon(s, i, j) ==
    IF j > Len(s) THEN 0
    ELSE IF IsDigit(s[j]) THEN MatchDigitsColon(s, i, j + 1)
    ELSE IF s[j] = ":" /\ j > i THEN j
    ELSE 0

\* re.split(r"\d+:", s), scanning from i with the current piece begun at start
RECURSIVE re_split(_, _, _)
re_split(s, i, start) ==
    IF i > Len(s) THEN <<SubSeq(s, start, Len(s))>>
    ELSE LET e == MatchDigitsColon(s, i, i)
         IN  IF e = 0 THEN re_split(s, i + 1, start)
             ELSE <<SubSeq(s, start, i - 1)>> \o re_split(s, e + 1, e + 1)

\* [part.strip() for part in parts if part.strip()]
RECURSIVE StripNonEmpty(_)
StripNonEmpty(parts) ==
    IF parts = <<>> THEN <<>>
    ELSE LET p == strip(Head(parts))
         IN  (IF p = <<>> THEN <<>> ELSE <<p>>) \o StripNonEmpty(Tail(parts))

HeaderLineFirst(headers) == headers[1]

\* headers[-1], the header line the column names are taken from
HeaderLine(headers) == headers[Len(headers)]

read_class_file_headers(file) ==
    IF ~file.exists THEN [kind |-> "FileNotFoundError"]
    ELSE LET headers == HeaderLoop(readlines(file.data))
         IN  IF headers = <<>> THEN [kind |-> "ValueError"]
             ELSE [kind |-> "ok",
                   column_headers |->
                       StripNonEmpty(re_split(HeaderLine(headers), 1, 1))]

-----------------------------------------------------------------------------
(* varie.delete_before_last_hash_line *)

\* the loop over enumerate(lines): the last index whose line starts with '#'
\* once left-stripped, counted from 1, and 0 for the code's -1
RECURSIVE LastHashLoop(_, _, _)
LastHashLoop(lines, i, last_hash_index) ==
    IF i > Len(lines) THEN last_hash_index
    ELSE LastHashLoop(lines, i + 1,
                      IF startswith_hash(lstrip(lines[i])) THEN i
                      ELSE last_hash_index)

RemainingFrom(lines, last_hash_index) ==
    SubSeq(lines, last_hash_index, Len(lines))

\* lines[last_hash_index + 1 :]
RemainingAfter(lines, last_hash_index) ==
    SubSeq(lines, last_hash_index + 1, Len(lines))

\* the file the call leaves behind
delete_before_last_hash_line(file) ==
    LET lines == readlines(file.data)
        last_hash_index == LastHashLoop(lines, 1, 0)
    IN  IF last_hash_index = 0 THEN file
        ELSE File(writelines(RemainingAfter(lines, last_hash_index)))

-----------------------------------------------------------------------------
(* The text files the two routines are run on *)

TextChars == {"#", " ", "1", ":", "a", "\n"}

TextPath == "cls.dat"

ExampleHeaderFile ==
    File(<<"#", " ", "c", "o", "l", "1", "\n",
           "#", " ", "c", "o", "l", "2", "\n",
           "#", " ", "1", ":", "c", "o", "l", "1", " ", "2", ":", "c", "o", "l", "2", "\n",
           "1", " ", "2", "\n">>)

\* the same file with a '#' line after its data
ExampleTrailingHashFile ==
    File(ExampleHeaderFile.data \o <<"#", " ", "3", ":", "x", "\n">>)

TextFiles ==
    {File(d) : d \in SeqsUpTo(TextChars, MaxFileLen)}
        \cup {ExampleHeaderFile, ExampleTrailingHashFile, NoFile}

InitText ==
    /\ disk \in [{TextPath} -> TextFiles]
    /\ all_cl = <<>>
    /\ params_lists = <<>>
    /\ call = NoCall
    /\ ret = NoRet
    /\ pre = disk
    /\ first = NoCall

ReadClassFileHeaders(file_path) ==
    /\ call' = [op |-> "read_class_file_headers", file_path |-> file_path]
    /\ ret' = read_class_file_headers(disk[file_path])
    /\ pre' = disk
    /\ UNCHANGED <<disk, all_cl, params_lists, first>>

DeleteBeforeLastHashLine(file_path) ==
    /\ call' = [op |-> "delete_before_last_hash_line", file_path |-> file_path]
    /\ pre' = disk
    /\ IF disk[file_path].exists
       THEN /\ disk' = [disk EXCEPT
                           ![file_path] = delete_before_last_hash_line(@)]
            /\ ret' = [kind |-> "ok"]
       ELSE /\ disk' = disk
            /\ ret' = [kind |-> "FileNotFoundError"]
    /\ UNCHANGED <<all_cl, params_lists, first>>

NextText ==
    \/ \E p \in DOMAIN disk : ReadClassFileHeaders(p)
    \/ \E p \in DOMAIN disk : DeleteBeforeLastHashLine(p)

SpecText == InitText /\ [][NextText]_vars

-----------------------------------------------------------------------------
(* reading_utils.read_sfx_class_cls_file *)

\* what all_cl.get(key) gives for an absent key
None == "None"

AutoKeyOfBinZero(X, bin1) == X \o ToString(0) \o X \o ToString(bin1)

\* ("d" + str(bin1)) * 2
AutoKey(X, bin1) == (X \o ToString(bin1)) \o (X \o ToString(bin1))

\* "d" + str(bin1) + "l" + str(bin2)
CrossKey(X, bin1, Y, bin2) == X \o ToString(bin1) \o Y \o ToString(bin2)

\* "td" + str(bin1)
TdKey(bin1) == "td" \o ToString(bin1)

dict_getitem_quiet(key) == [key |-> key, raises |-> FALSE]

\* all_cl[key]: raises KeyError when the key is absent
dict_getitem(key) == [key |-> key, raises |-> TRUE]

dict_get_raising(key) == [key |-> key, raises |-> TRUE]

\* all_cl.get(key): None when the key is absent
dict_get(key) == [key |-> key, raises |-> FALSE]

\* the td mapping of the call before, kept instead of a new mapping
StaleDict == IF ret.kind = "ok" THEN ret.dict_cl.td ELSE <<>>

\* td = {} ... il = {}, and dd[bin1] = {} ... il[bin1] = {}
NewDict == <<>>

\* range(a, b) as the sequence a, a + 1, ..., b - 1
Range(a, b) == [i \in 1..Max(b - a, 0) |-> a + i - 1]

SameChannelRangeFull(bin1, nbins) == [i \in 1..nbins |-> i - 1]

\* range(bin1, nbins), the bins of the same-channel loop
SameChannelRange(bin1, nbins) == Range(bin1, nbins)

\* range(nbins), the bins of the cross-channel loop
CrossChannelRange(nbins) == Range(0, nbins)

FlatNames == <<"l", "lls", "tt", "ee", "te", "pp", "tp", "ep">>

FlatKeys == <<"ell1", "ell2", "tt", "ee", "te", "pp", "tp", "ep">>

DictNames == <<"td", "dd_auto", "ll_auto", "ii_auto", "dd", "ll", "ii", "dl", "di", "il">>

\* l = all_cl["ell1"] ... ep = all_cl["ep"]
FlatStatements ==
    [i \in 1..Len(FlatKeys) |->
        [op |-> "flat", name |-> FlatNames[i], look |-> dict_getitem(FlatKeys[i])]]

\* td = {} ... il = {}
DictStatements ==
    [i \in 1..Len(DictNames) |-> [op |-> "dict", name |-> DictNames[i]]]

Clear(name, bin1) == [op |-> "clear", name |-> name, bin1 |-> bin1]

Set1(name, bin1, look) == [op |-> "set1", name |-> name, bin1 |-> bin1, look |-> look]

Set2(name, bin1, bin2, look) ==
    [op |-> "set2", name |-> name, bin1 |-> bin1, bin2 |-> bin2, look |-> look]

\* the body of "for bin2 in range(bin1, nbins)", for the bins of r
RECURSIVE SameChannelLoop(_, _)
SameChannelLoop(bin1, r) ==
    IF r = <<>> THEN <<>>
    ELSE LET bin2 == Head(r)
         IN  <<Set2("dd", bin1, bin2, dict_getitem(CrossKey("d", bin1, "d", bin2))),
               Set2("ll", bin1, bin2, dict_getitem(CrossKey("l", bin1, "l", bin2))),
               Set2("ii", bin1, bin2, dict_get(CrossKey("i", bin1, "i", bin2)))>>
             \o SameChannelLoop(bin1, Tail(r))

\* the body of "for bin2 in range(nbins)", for the bins of r
RECURSIVE CrossChannelLoop(_, _)
CrossChannelLoop(bin1, r) ==
    IF r = <<>> THEN <<>>
    ELSE LET bin2 == Head(r)
         IN  <<Set2("dl", bin1, bin2, dict_getitem(CrossKey("d", bin1, "l", bin2))),
               Set2("di", bin1, bin2, dict_get(CrossKey("d", bin1, "i", bin2))),
               Set2("il", bin1, bin2, dict_get(CrossKey("i", bin1, "l", bin2)))>>
             \o CrossChannelLoop(bin1, Tail(r))

\* the body of "for bin1 in range(nbins)", for the bins of r
RECURSIVE BinLoop(_, _)
BinLoop(r, nbins) ==
    IF r = <<>> THEN <<>>
    ELSE LET bin1 == Head(r)
         IN  <<Clear("dd", bin1), Clear("ll", bin1), Clear("ii", bin1),
               Clear("dl", bin1), Clear("di", bin1), Clear("il", bin1),
               Set1("td", bin1, dict_getitem(TdKey(bin1))),
               Set1("dd_auto", bin1, dict_getitem(AutoKey("d", bin1))),
               Set1("ll_auto", bin1, dict_getitem(AutoKey("l", bin1))),
               Set1("ii_auto", bin1, dict_get(AutoKey("i", bin1)))>>
             \o SameChannelLoop(bin1, SameChannelRange(bin1, nbins))
             \o CrossChannelLoop(bin1, CrossChannelRange(nbins))
             \o BinLoop(Tail(r), nbins)

\* the statements of the function body, in the order they run
Statements(nbins) ==
    FlatStatements \o DictStatements \o BinLoop(Range(0, nbins), nbins)

\* one statement run on the local variables; a lookup is already known to succeed
Assign(locals, st, d) ==
    LET value == IF st.look.key \in DOMAIN d THEN d[st.look.key] ELSE None
    IN  CASE st.op = "flat"  -> (st.name :> value) @@ locals
          [] st.op = "dict"  -> (st.name :> NewDict) @@ locals
          [] st.op = "clear" ->
                [locals EXCEPT ![st.name] = (st.bin1 :> NewDict) @@ @]
          [] st.op = "set1"  ->
                [locals EXCEPT ![st.name] = (st.bin1 :> value) @@ @]
          [] st.op = "set2"  ->
                [locals EXCEPT ![st.name][st.bin1] = (st.bin2 :> value) @@ @]

Raises(st, d) ==
    /\ st.op \in {"flat", "set1", "set2"}
    /\ st.look.raises
    /\ st.look.key \notin DOMAIN d

\* one statement run after what ran before it: an error ends the call
Step(st, state, d) ==
    IF state.kind # "ok" THEN state
    ELSE IF Raises(st, d) THEN [kind |-> "KeyError", key |-> st.look.key]
    ELSE [kind |-> "ok", dict_cl |-> Assign(state.dict_cl, st, d)]

\* the statements lo..hi run in order: the first half, then, unless it
\* raised, the second half
RECURSIVE Run(_, _, _, _, _)
Run(sts, lo, hi, state, d) ==
    IF lo > hi THEN state
    ELSE IF lo = hi THEN Step(sts[lo], state, d)
    ELSE LET mid == (lo + hi) \div 2
             done == Run(sts, lo, mid, state, d)
         IN  IF done.kind # "ok" THEN done
             ELSE Run(sts, mid + 1, hi, done, d)

read_sfx_class_cls_file(nbins, d) ==
    LET sts == Statements(nbins)
    IN  Run(sts, 1, Len(sts), [kind |-> "ok", dict_cl |-> <<>>], d)

-----------------------------------------------------------------------------
(* The archives read_sfx_class_cls_file is run on *)

Bins == 0..(MaxBins - 1)

ChannelPairs ==
    {<<"d", "d">>, <<"l", "l">>, <<"i", "i">>, <<"d", "l">>, <<"d", "i">>, <<"i", "l">>}

BinKeys(pairs) ==
    {CrossKey(c[1], b1, c[2], b2) : c \in pairs, b1 \in Bins, b2 \in Bins}

\* the keys an archive may hold
AllKeys ==
    {FlatKeys[i] : i \in 1..Len(FlatKeys)}
        \cup {TdKey(b) : b \in Bins} \cup BinKeys(ChannelPairs)

\* the keys of some of the intrinsic-alignment channel pairs
IaKeySets == {BinKeys(P) : P \in SUBSET {c \in ChannelPairs : "i" \in {c[1], c[2]}}}

\* the array stored under a key: every key has an array of its own
Array(key) == "arr_" \o key

\* the archives: all keys, or all but one, with and without the keys of each
\* intrinsic-alignment channel pair
Archives ==
    {[k \in (AllKeys \ (M \cup I)) |-> Array(k)] :
        M \in {{}} \cup {{x} : x \in AllKeys}, I \in IaKeySets}

InitSfx ==
    /\ all_cl \in Archives
    /\ disk = <<>>
    /\ params_lists = <<>>
    /\ call = NoCall
    /\ ret = NoRet
    /\ pre = <<>>
    /\ first = NoCall

ReadSfxClassClsFile(nbins) ==
    /\ call' = [op |-> "read_sfx_class_cls_file", nbins |-> nbins,
                 prev |-> IF call = NoCall THEN 0 ELSE call.nbins]
    /\ ret' = read_sfx_class_cls_file(nbins, all_cl)
    /\ first' = IF first = NoCall
                THEN [op |-> "read_sfx_class_cls_file", nbins |-> nbins,
                      all_cl |-> all_cl, ret |-> ret']
                ELSE first
    /\ UNCHANGED <<all_cl, disk, params_lists, pre>>

NextSfx == \E nbins \in 1..MaxBins : ReadSfxClassClsFile(nbins)

SpecSfx == InitSfx /\ [][NextSfx]_vars

-----------------------------------------------------------------------------
(* varie.exclude_nuisance *)

\* list.insert(0, x)
insert0(list, x) == <<x>> \o list

exclude_nuisance(excl_nuis, tau, mnu, only_shear_bias, nuis_without_shear_bias, lists) ==
    LET cosmo_list == lists.cosmo
        all_but_shear_bias_list == lists.all_but_shear_bias
        shear_bias_list == lists.shear_bias
        with_mnu == IF mnu THEN insert0(lists.nuisance, "mnu") ELSE lists.nuisance
        nuisance_list == IF tau THEN insert0(with_mnu, "tau") ELSE with_mnu
    IN  IF only_shear_bias
        THEN [kind |-> "ok", exclude |-> all_but_shear_bias_list, partype |-> "nuisance"]
        ELSE IF excl_nuis
        THEN [kind |-> "ok", exclude |-> nuisance_list, partype |-> "cosmo"]
        ELSE IF nuis_without_shear_bias
        THEN [kind |-> "ok", exclude |-> cosmo_list \o shear_bias_list,
              partype |-> "nuisance"]
        ELSE [kind |-> "ok", exclude |-> cosmo_list, partype |-> "nuisance"]

ParamNames == {"om", "m0"}

ParamLists == SeqsUpTo(ParamNames, MaxListLen) \ {<<>>}

InitExcl ==
    /\ params_lists \in [cosmo : ParamLists, nuisance : ParamLists,
                         all_but_shear_bias : ParamLists, shear_bias : ParamLists]
    /\ disk = <<>>
    /\ all_cl = <<>>
    /\ call = NoCall
    /\ ret = NoRet
    /\ pre = <<>>
    /\ first = NoCall

ExcludeNuisance(excl_nuis, tau, mnu, only_shear_bias, nuis_without_shear_bias) ==
    /\ call' = [op |-> "exclude_nuisance", excl_nuis |-> excl_nuis, tau |-> tau,
                mnu |-> mnu, only_shear_bias |-> only_shear_bias,
                nuis_without_shear_bias |-> nuis_without_shear_bias]
    /\ ret' = exclude_nuisance(excl_nuis, tau, mnu, only_shear_bias,
                               nuis_without_shear_bias, params_lists)
    /\ UNCHANGED <<disk, all_cl, params_lists, pre, first>>

NextExcl ==
    \E excl_nuis, tau, mnu, only_shear_bias, nuis_without_shear_bias \in BOOLEAN :
        ExcludeNuisance(excl_nuis, tau, mnu, only_shear_bias, nuis_without_shear_bias)

SpecExcl == InitExcl /\ [][NextExcl]_vars

\* C8: the second value exclude_nuisance returns names the type of the
\* excluded parameters: 'nuisance' when the nuisance list is returned
\* (excl_nuis True), 'cosmo' when the cosmological list is (excl_nuis False).
C8_PartypeNamesExcluded ==
    (call.op = "exclude_nuisance" /\ ~call.only_shear_bias) =>
        /\ call.excl_nuis => ret.partype = "nuisance"
        /\ ~call.excl_nuis => ret.partype = "cosmo"

-----------------------------------------------------------------------------
(* varie.delete_burn_in *)

\* the folder the function assigns over its parameter
HardCodedFolder == "emg_cc_P18_desi_wideV0"

DotTxt == <<".", "t", "x", "t">>

\* the name matches the glob pattern file + ".*.txt"
GlobMatch(name, file) ==
    LET prefix == file \o <<".">>
    IN  /\ Len(name) >= Len(prefix) + Len(DotTxt)
        /\ SubSeq(name, 1, Len(prefix)) = prefix
        /\ SubSeq(name, Len(name) - Len(DotTxt) + 1, Len(name)) = DotTxt

\* glob.glob(os.path.join(folder, file + ".*.txt"))
glob(folder, file, fs) ==
    {path \in DOMAIN fs : fs[path].exists /\ path[1] = folder /\ GlobMatch(path[2], file)}

\* seq[start:] for an integer start
SliceFrom(seq, start) ==
    LET from == IF start < 0 THEN Max(Len(seq) + start, 0) ELSE Min(start, Len(seq))
    IN  SubSeq(seq, from + 1, Len(seq))

\* the body of the loop for one file: the file it leaves, or what it raises
BurnOneFile(file, burn_in) ==
    LET lines == readlines(file.data)
        remaining_lines == Tail(lines)
        point_forward == Len(remaining_lines) * burn_in.num
    IN  IF lines = <<>> THEN [kind |-> "IndexError"]
        ELSE IF burn_in.type = "float" THEN [kind |-> "TypeError"]
        ELSE [kind |-> "ok",
              file |-> File(writelines(<<Head(lines)>>
                                \o SliceFrom(remaining_lines, point_forward - 1)))]

\* the loop over the files in the order glob gave them
RECURSIVE BurnLoop(_, _, _)
BurnLoop(files, fs, burn_in) ==
    IF files = <<>> THEN [kind |-> "ok", fs |-> fs]
    ELSE LET one == BurnOneFile(fs[Head(files)], burn_in)
         IN  IF one.kind # "ok" THEN [kind |-> one.kind, fs |-> fs]
             ELSE BurnLoop(Tail(files), [fs EXCEPT ![Head(files)] = one.file], burn_in)

Orders(S) == {o \in [1..Cardinality(S) -> S] : \A i, j \in DOMAIN o : i # j => o[i] # o[j]}

Run1Txt == <<"r", "u", "n", ".", "1", ".", "t", "x", "t">>

Run2Txt == <<"r", "u", "n", ".", "2", ".", "t", "x", "t">>

RunTxt == <<"r", "u", "n", ".", "t", "x", "t">>

RunName == <<"r", "u", "n">>

ChainPaths ==
    {<<HardCodedFolder, Run1Txt>>, <<HardCodedFolder, Run2Txt>>,
     <<"chains", Run1Txt>>, <<"chains", Run2Txt>>, <<"chains", RunTxt>>}

\* a chain file of n lines: a header line and numbered rows
ChainFile(n) ==
    File(Flatten([i \in 1..n |-> IF i = 1 THEN <<"#", "h", "\n">>
                                  ELSE <<ToString(i - 1), "\n">>]))

ChainFiles == {ChainFile(n) : n \in 0..MaxChainLines} \cup {NoFile}

\* burn_in as an int (0, 1) or as a float num/den (0.0, 0.5, 1.0)
BurnIns ==
    {[type |-> "int", num |-> 0, den |-> 1], [type |-> "int", num |-> 1, den |-> 1],
     [type |-> "float", num |-> 0, den |-> 1], [type |-> "float", num |-> 1, den |-> 2],
     [type |-> "float", num |-> 1, den |-> 1]}

InitBurn ==
    /\ disk \in [ChainPaths -> ChainFiles]
    /\ all_cl = <<>>
    /\ params_lists = <<>>
    /\ call = NoCall
    /\ ret = NoRet
    /\ pre = disk
    /\ first = NoCall

DeleteBurnIn(folder, file, burn_in) ==
    \E files \in Orders(glob(HardCodedFolder, file, disk)) :
        LET done == BurnLoop(files, disk, burn_in)
        IN  /\ call' = [op |-> "delete_burn_in", folder |-> folder, file |-> file,
                        burn_in |-> burn_in]
            /\ pre' = disk
            /\ disk' = done.fs
            /\ ret' = [kind |-> done.kind]
            /\ UNCHANGED <<all_cl, params_lists, first>>

NextBurn ==
    \E folder \in {HardCodedFolder, "chains"}, file \in {RunName, <<"r", "u">>},
       burn_in \in BurnIns :
        DeleteBurnIn(folder, file, burn_in)

SpecBurn == InitBurn /\ [][NextBurn]_vars

\* the file the docstring promises: the header line, then the remaining lines
\* without their first burn_in fraction
BurnInRemoved(file, burn_in) ==
    LET lines == readlines(file.data)
        remaining == Tail(lines)
        cut == (Len(remaining) * burn_in.num) \div burn_in.den
    IN  IF lines = <<>> THEN file
        ELSE File(Flatten(<<Head(lines)>> \o SubSeq(remaining, cut + 1, Len(remaining))))

\* C7: delete_burn_in(folder, file, burn_in) completes and leaves every file
\* of the folder it was given whose name matches '<file>.*.txt' with its
\* header line followed by its remaining lines without the first burn_in
\* fraction of them.
C7_BurnInRemovedInFolder ==
    call.op = "delete_burn_in" =>
        /\ ret.kind = "ok"
        /\ \A path \in DOMAIN pre :
              (pre[path].exists /\ path[1] = call.folder
                    /\ GlobMatch(path[2], call.file)) =>
                  disk[path] = BurnInRemoved(pre[path], call.burn_in)

-----------------------------------------------------------------------------
(* Properties of read_sfx_class_cls_file *)

\* the keys the call needs for nbins bins
RequiredKeys(nbins) ==
    LET B == 0..(nbins - 1)
    IN  {"ell1", "ell2", "tt", "ee", "te", "pp", "tp", "ep"}
            \cup {"td" \o ToString(b) : b \in B}
            \cup {c \o ToString(p[1]) \o c \o ToString(p[2]) :
                    c \in {"d", "l"}, p \in {q \in B \X B : q[1] <= q[2]}}
            \cup {"d" \o ToString(b1) \o "l" \o ToString(b2) : b1 \in B, b2 \in B}

IsRead == call.op = "read_sfx_class_cls_file"

\* the value the result holds for a key: its array, or None for an absent key
Stored(key) == IF key \in DOMAIN all_cl THEN all_cl[key] ELSE None

\* C1: with all required keys present the call returns a result where dd[bin1]
\* and ll[bin1] have exactly the keys bin1..nbins-1 and dl[bin1], di[bin1],
\* il[bin1] exactly the keys 0..nbins-1, each value being the array stored
\* under the key of that channel pair and those bins.
C1_KeySetsAndValues ==
    (IsRead /\ RequiredKeys(call.nbins) \subseteq DOMAIN all_cl) =>
        /\ ret.kind = "ok"
        /\ LET B == 0..(call.nbins - 1)
               r == ret.dict_cl
           IN  /\ \A n \in {"dd", "ll", "dl", "di", "il"} : DOMAIN r[n] = B
               /\ \A bin1 \in B :
                    /\ DOMAIN r.dd[bin1] = {b \in B : bin1 <= b}
                    /\ DOMAIN r.ll[bin1] = {b \in B : bin1 <= b}
                    /\ DOMAIN r.dl[bin1] = B
                    /\ DOMAIN r.di[bin1] = B
                    /\ DOMAIN r.il[bin1] = B
                    /\ \A b \in {b \in B : bin1 <= b} :
                         /\ r.dd[bin1][b] = all_cl[CrossKey("d", bin1, "d", b)]
                         /\ r.ll[bin1][b] = all_cl[CrossKey("l", bin1, "l", b)]
                    /\ \A b \in B :
                         /\ r.dl[bin1][b] = all_cl[CrossKey("d", bin1, "l", b)]
                         /\ r.di[bin1][b] = Stored(CrossKey("d", bin1, "i", b))
                         /\ r.il[bin1][b] = Stored(CrossKey("i", bin1, "l", b))

\* nbins = 2 on an archive without intrinsic-alignment keys gave the nested
\* mappings expected for such an archive
C1_Witness ==
    /\ IsRead
    /\ call.nbins = 2
    /\ ret.kind = "ok"
    /\ ret.dict_cl.dd = (0 :> (0 :> "arr_d0d0" @@ 1 :> "arr_d0d1")
                            @@ 1 :> (1 :> "arr_d1d1"))
    /\ ret.dict_cl.dl = (0 :> (0 :> "arr_d0l0" @@ 1 :> "arr_d0l1")
                            @@ 1 :> (0 :> "arr_d1l0" @@ 1 :> "arr_d1l1"))
    /\ ret.dict_cl.di = (0 :> (0 :> None @@ 1 :> None) @@ 1 :> (0 :> None @@ 1 :> None))

\* C2: when a required key is absent the call ends in a KeyError naming an
\* absent required key and returns no result.
C2_MissingRequiredKey ==
    (IsRead /\ ~(RequiredKeys(call.nbins) \subseteq DOMAIN all_cl)) =>
        /\ DOMAIN ret = {"kind", "key"}
        /\ ret.kind = "KeyError"
        /\ ret.key \in RequiredKeys(call.nbins) \ DOMAIN all_cl

\* nbins = 1 on an archive without d0d0 ended in KeyError d0d0
C2_Witness ==
    /\ IsRead
    /\ call.nbins = 1
    /\ "d0d0" \notin DOMAIN all_cl
    /\ ret = [kind |-> "KeyError", key |-> "d0d0"]

\* C3: with all required keys present, every absent intrinsic-alignment key
\* leaves an entry holding None at its position in ii_auto, ii, di or il, and
\* the call succeeds.
C3_MissingOptionalKey ==
    (IsRead /\ RequiredKeys(call.nbins) \subseteq DOMAIN all_cl) =>
        /\ ret.kind = "ok"
        /\ LET B == 0..(call.nbins - 1)
               r == ret.dict_cl
               Absent(key) == key \notin DOMAIN all_cl
               IsNone(m, b) == b \in DOMAIN m /\ m[b] = None
           IN  \A bin1 \in B :
                 /\ Absent("i" \o ToString(bin1) \o "i" \o ToString(bin1)) =>
                        IsNone(r.ii_auto, bin1)
                 /\ bin1 \in DOMAIN r.ii /\ bin1 \in DOMAIN r.di /\ bin1 \in DOMAIN r.il
                 /\ \A bin2 \in B :
                      /\ (bin1 <= bin2
                            /\ Absent("i" \o ToString(bin1) \o "i" \o ToString(bin2))) =>
                              IsNone(r.ii[bin1], bin2)
                      /\ Absent("d" \o ToString(bin1) \o "i" \o ToString(bin2)) =>
                              IsNone(r.di[bin1], bin2)
                      /\ Absent("i" \o ToString(bin1) \o "l" \o ToString(bin2)) =>
                              IsNone(r.il[bin1], bin2)

\* an archive with the d-i keys but without the i-i keys was read
C3_Witness ==
    /\ IsRead
    /\ call.nbins >= 2
    /\ "i0i1" \notin DOMAIN all_cl
    /\ "d0i1" \in DOMAIN all_cl
    /\ ret.kind = "ok"
    /\ ret.dict_cl.ii[0][1] = None
    /\ ret.dict_cl.ii_auto[0] = None
    /\ ret.dict_cl.di[0][1] = "arr_d0i1"

C10_AutoIsDiagonal ==
    (IsRead /\ ret.kind = "ok") =>
        LET B == 0..(call.nbins - 1)
            r == ret.dict_cl
        IN  /\ \A n \in {"td", "dd_auto", "ll_auto", "ii_auto"} : DOMAIN r[n] = B
            /\ \A b \in B :
                 /\ r.dd_auto[b] = r.dd[b][b]
                 /\ r.ll_auto[b] = r.ll[b][b]
                 /\ r.ii_auto[b] = r.ii[b][b]
                 /\ (r.ii_auto[b] = None) <=>
                        (("i" \o ToString(b) \o "i" \o ToString(b)) \notin DOMAIN all_cl)

\* a result with bin 1 whose i1i1 is absent and whose d1d1 is present
C10_Witness ==
    /\ IsRead
    /\ ret.kind = "ok"
    /\ call.nbins >= 2
    /\ "i1i1" \notin DOMAIN all_cl
    /\ "i0i0" \in DOMAIN all_cl
    /\ ret.dict_cl.ii_auto[1] = None
    /\ ret.dict_cl.ii[1][1] = None
    /\ ret.dict_cl.dd_auto[1] = "arr_d1d1"
    /\ ret.dict_cl.dd[1][1] = "arr_d1d1"

-----------------------------------------------------------------------------
(* Properties of the text routines *)

\* the first non-blank character of the line is '#'
IsHashLine(l) ==
    \E k \in 1..Len(l) : l[k] = "#" /\ \A m \in 1..(k - 1) : IsSpace(l[m])

\* the line with its blank prefix and its '#' removed
AfterHash(l) ==
    LET k == CHOOSE k \in 1..Len(l) : l[k] = "#" /\ \A m \in 1..(k - 1) : IsSpace(l[m])
    IN  SubSeq(l, k + 1, Len(l))

\* how many lines the leading block of '#' lines has
LeadingBlock(L) ==
    CHOOSE j \in 0..Len(L) :
        /\ \A i \in 1..j : IsHashLine(L[i])
        /\ j = Len(L) \/ ~IsHashLine(L[j + 1])

\* the positions of s covered by a '<digits>:' pattern
SeparatorPositions(s) ==
    {i \in 1..Len(s) :
        \E a \in 1..i : \E b \in i..Len(s) :
            a < b /\ s[b] = ":" /\ \A m \in a..(b - 1) : IsDigit(s[m])}

\* the maximal stretches of s between the patterns, as <<from, to>>
PieceRuns(s) ==
    LET sep == SeparatorPositions(s)
    IN  {r \in (1..Len(s)) \X (1..Len(s)) :
            /\ r[1] <= r[2]
            /\ \A m \in r[1]..r[2] : m \notin sep
            /\ r[1] = 1 \/ (r[1] - 1) \in sep
            /\ r[2] = Len(s) \/ (r[2] + 1) \in sep}

RECURSIVE InOrder(_)
InOrder(R) ==
    IF R = {} THEN <<>>
    ELSE LET m == CHOOSE r \in R : \A q \in R : r[1] <= q[1]
         IN  <<m>> \o InOrder(R \ {m})

\* the non-empty stripped pieces of s, in their order in s
ExpectedColumns(s) ==
    LET runs == InOrder({r \in PieceRuns(s) : strip(SubSeq(s, r[1], r[2])) # <<>>})
    IN  [i \in 1..Len(runs) |-> strip(SubSeq(s, runs[i][1], runs[i][2]))]

Col1 == <<"c", "o", "l", "1">>

Col2 == <<"c", "o", "l", "2">>

\* C4: read_class_file_headers returns the column names of the last line of
\* the leading block of '#' lines, and of no later line: that line without its
\* '#', split on every '<digits>:' pattern, the non-empty stripped pieces in
\* their order; the example file yields col1, col2.
C4_HeadersFromLastLeadingLine ==
    \A p \in DOMAIN pre :
        (call = [op |-> "read_class_file_headers", file_path |-> p] /\ pre[p].exists) =>
            LET L == readlines(pre[p].data)
                j == LeadingBlock(L)
            IN  /\ j > 0 =>
                    /\ ret.kind = "ok"
                    /\ ret.column_headers = ExpectedColumns(AfterHash(L[j]))
                /\ pre[p] \in {ExampleHeaderFile, ExampleTrailingHashFile} =>
                    /\ ret.kind = "ok"
                    /\ ret.column_headers = <<Col1, Col2>>

\* a file with three leading '#' lines, data and a later '#' line was read
C4_Witness ==
    /\ call.op = "read_class_file_headers"
    /\ pre[TextPath] = ExampleTrailingHashFile
    /\ LeadingBlock(readlines(pre[TextPath].data)) = 3
    /\ ret.kind = "ok"
    /\ ret.column_headers = <<Col1, Col2>>

\* C5: read_class_file_headers on an existing file whose first line does not
\* start with '#' once stripped (an empty file, a file with '#' lines only
\* after another line) ends in ValueError and returns no list; on a missing
\* file it ends in FileNotFoundError, never in ValueError.
C5_NoHeadersAndMissingFile ==
    \A p \in DOMAIN pre :
        call = [op |-> "read_class_file_headers", file_path |-> p] =>
            /\ ~pre[p].exists => ret = [kind |-> "FileNotFoundError"]
            /\ pre[p].exists =>
                LET L == readlines(pre[p].data)
                IN  (L = <<>> \/ ~IsHashLine(L[1])) => ret = [kind |-> "ValueError"]

\* a file whose only '#' line comes after another line was read
C5_Witness ==
    /\ call.op = "read_class_file_headers"
    /\ pre[TextPath].exists
    /\ LET L == readlines(pre[TextPath].data)
       IN  /\ Len(L) >= 2
           /\ ~IsHashLine(L[1])
           /\ L[1] # <<"\n">>
           /\ IsHashLine(L[2])
    /\ ret.kind = "ValueError"

\* the file holds exactly the lines of `before` after its last '#' line, or
\* all of `before` when it has no '#' line
IsAfterLastHash(after, before) ==
    LET L == readlines(before.data)
    IN  IF \A i \in 1..Len(L) : ~IsHashLine(L[i]) THEN after = before
        ELSE \E j \in 1..Len(L) :
                /\ IsHashLine(L[j])
                /\ \A i \in (j + 1)..Len(L) : ~IsHashLine(L[i])
                /\ after.exists
                /\ readlines(after.data) = SubSeq(L, j + 1, Len(L))

C9_State ==
    \A p \in DOMAIN pre :
        (call = [op |-> "delete_before_last_hash_line", file_path |-> p] /\ pre[p].exists) =>
            /\ ret.kind = "ok"
            /\ IsAfterLastHash(disk[p], pre[p])
            /\ \A i \in 1..Len(readlines(disk[p].data)) :
                   ~IsHashLine(readlines(disk[p].data)[i])

C9_Again ==
    \A p \in DOMAIN disk :
        (/\ call = [op |-> "delete_before_last_hash_line", file_path |-> p]
         /\ DeleteBeforeLastHashLine(p)) => disk' = disk

\* C9: delete_before_last_hash_line leaves in the file exactly the lines that
\* followed its last '#' line, in order, and leaves a file without '#' line
\* as it was; the result has no '#' line, and a second application right
\* after the first changes nothing.
C9_DeleteBeforeLastHashLine == [] C9_State /\ [][C9_Again]_vars

\* a file with lines after its last '#' line was cut
C9_Witness ==
    /\ call.op = "delete_before_last_hash_line"
    /\ pre[TextPath].exists
    /\ \E i \in 1..Len(readlines(pre[TextPath].data)) :
           IsHashLine(readlines(pre[TextPath].data)[i])
    /\ disk[TextPath].data # <<>>
    /\ disk # pre

====
